---- MODULE Spec2Model ----
(***************************************************************************)
(* Model of serde-arc-value (src/src/lib.rs): the Value enum with its      *)
(* reference-counted composite variants, and the Dedup session that        *)
(* hash-conses byte-blobs, strings, sequences and key/value collections.   *)
(*                                                                         *)
(* An Arc<T> is an address into `heap`; the cell at that address carries   *)
(* the content and the strong count.  A Value is a record whose `tag` is   *)
(* the variant; the four shared variants carry the address `h`, Option    *)
(* and Newtype own their boxed child directly.                             *)
(***************************************************************************)
EXTENDS Integers, Sequences, FiniteSets, TLC

VARIABLES heap, blobs, strings, vectors, objects, vals, built, last

vars == <<heap, blobs, strings, vectors, objects, vals, built, last>>

(***************************************************************************)
(* Bounds                                                                  *)
(***************************************************************************)
MaxVals == 2        \* documents the caller builds, and values it holds at a time
MaxLen  == 2        \* elements of a sequence / entries of a collection
MaxRecords == 3     \* collections in a record batch

Strs == {"x", "y"}
ByteStrs == {<<1>>}

(***************************************************************************)
(* Values                                                                  *)
(***************************************************************************)
IntTags == {"U8", "U16", "U32", "U64", "I8", "I16", "I32", "I64"}
FloatTags == {"F32", "F64"}
SharedTags == {"String", "Bytes", "Seq", "Map"}

Unit == [tag |-> "Unit"]
Bool(b) == [tag |-> "Bool", bit |-> b]
Num(t, n) == [tag |-> t, n |-> n]
Char(c) == [tag |-> "Char", c |-> c]
None == [tag |-> "Option", o |-> <<>>]
Some(v) == [tag |-> "Option", o |-> <<v>>]
Newtype(v) == [tag |-> "Newtype", x |-> v]
Shared(t, h) == [tag |-> t, h |-> h]

\* every scalar variant, as an argument of a top-level dedup call
Scalars ==
    {Unit, Bool(TRUE), Char("c")} \cup {Num(t, 0) : t \in IntTags \cup FloatTags}

\* scalars written into a sequence or collection under construction
ElemScalars == {Num("U8", 0)}

IsShared(v) == v.tag \in SharedTags

(***************************************************************************)
(* Heap cells: the ArcInner of each shared variant                         *)
(***************************************************************************)
StrCell(s)   == [kind |-> "str",   rc |-> 1, s |-> s]
BytesCell(b) == [kind |-> "bytes", rc |-> 1, b |-> b]
VecCell(e)   == [kind |-> "vec",   rc |-> 1, e |-> e]
KV(k, v)     == [kind |-> "kv",    rc |-> 1, k |-> k, v |-> v]

\* number of live cells
Live(hp) == Cardinality(DOMAIN hp)

\* the allocator hands out the lowest free address
Fresh(hp) ==
    LET free == (1..(Live(hp) + 1)) \ DOMAIN hp
    IN CHOOSE a \in free : \A b \in free : a <= b

\* Arc::new
ArcNew(hp, cell) == (Fresh(hp) :> cell) @@ hp

\* Arc::clone
ArcClone(hp, h) == [hp EXCEPT ![h].rc = @ + 1]

\* Arc::strong_count
strong_count(hp, h) == hp[h].rc

RECURSIVE DropArc(_, _), DropVec(_, _), DropValue(_, _)

\* Drop of an Arc: the count falls; the last handle frees the cell and
\* drops what the cell owns.
DropArc(hp, h) ==
    IF hp[h].rc > 1
    THEN [hp EXCEPT ![h].rc = @ - 1]
    ELSE LET c == hp[h]
             hp1 == [a \in DOMAIN hp \ {h} |-> hp[a]]
         IN CASE c.kind = "vec" -> DropVec(hp1, c.e)
              [] c.kind = "kv"  -> DropVec(DropArc(hp1, c.k), c.v)
              [] OTHER          -> hp1

DropVec(hp, vs) ==
    IF vs = <<>> THEN hp ELSE DropVec(DropValue(hp, Head(vs)), Tail(vs))

DropValue(hp, v) ==
    CASE IsShared(v)        -> DropArc(hp, v.h)
      [] v.tag = "Option"   -> DropVec(hp, v.o)
      [] v.tag = "Newtype"  -> DropValue(hp, v.x)
      [] OTHER              -> hp

RECURSIVE CloneValue(_, _), CloneVec(_, _)

\* #[derive(Clone)] for Value: an Arc is cloned by handle, a Box by content
CloneValue(hp, v) ==
    CASE IsShared(v)        -> ArcClone(hp, v.h)
      [] v.tag = "Option"   -> CloneVec(hp, v.o)
      [] v.tag = "Newtype"  -> CloneValue(hp, v.x)
      [] OTHER              -> hp

CloneVec(hp, vs) ==
    IF vs = <<>> THEN hp ELSE CloneVec(CloneValue(hp, Head(vs)), Tail(vs))

(***************************************************************************)
(* Structural content and equality                                         *)
(***************************************************************************)
RECURSIVE Deref(_, _)

\* The content a value denotes, every Arc followed (as_ref at each level).
\* Each shared node keeps its address `h` (a collection also the address
\* `kh` of its key sequence), so that two contents can be compared both
\* structurally (eq, which reads no address) and by identity (Arc::ptr_eq).
Deref(hp, v) ==
    CASE v.tag = "String"  -> [tag |-> "String", h |-> v.h, s |-> hp[v.h].s]
      [] v.tag = "Bytes"   -> [tag |-> "Bytes", h |-> v.h, b |-> hp[v.h].b]
      [] v.tag = "Seq"     ->
            [tag |-> "Seq", h |-> v.h,
             e |-> [i \in 1..Len(hp[v.h].e) |-> Deref(hp, hp[v.h].e[i])]]
      [] v.tag = "Map"     ->
            LET kv == hp[v.h]
                ks == hp[kv.k].e
            IN [tag |-> "Map", h |-> v.h, kh |-> kv.k,
                k |-> [i \in 1..Len(ks) |-> Deref(hp, ks[i])],
                v |-> [i \in 1..Len(kv.v) |-> Deref(hp, kv.v[i])]]
      [] v.tag = "Option"  ->
            [tag |-> "Option", o |-> [i \in 1..Len(v.o) |-> Deref(hp, v.o[i])]]
      [] v.tag = "Newtype" -> [tag |-> "Newtype", x |-> Deref(hp, v.x)]
      [] OTHER             -> v

DerefVec(hp, vs) == [i \in 1..Len(vs) |-> Deref(hp, vs[i])]

(***************************************************************************)
(* Floats.  The payload of F32/F64 is a bit pattern of a miniature IEEE    *)
(* format: bit 3 the sign, bits 2..1 the exponent, bit 0 the mantissa;     *)
(* exponent 3 is infinity (mantissa 0) or not-a-number (mantissa 1),       *)
(* exponent 0 is zero (mantissa 0) or a subnormal.                         *)
(***************************************************************************)
FloatSign(n) == n \div 8
FloatExp(n) == (n \div 2) % 4
FloatMan(n) == n % 2

\* f.is_nan()
is_nan(n) == FloatExp(n) = 3 /\ FloatMan(n) = 1

\* twice the magnitude the pattern denotes (infinity above every finite one)
FloatMag(n) ==
    CASE FloatExp(n) = 0 -> FloatMan(n)
      [] FloatExp(n) = 1 -> 2 + FloatMan(n)
      [] FloatExp(n) = 2 -> 4 + 2 * FloatMan(n)
      [] OTHER           -> 16

\* the number a pattern that is not a NaN denotes; both zeros denote 0
FloatNum(n) == IF FloatSign(n) = 1 THEN 0 - FloatMag(n) ELSE FloatMag(n)

\* Ord for the primitive integers
IntCmp(x, y) == IF x < y THEN "Less" ELSE IF x > y THEN "Greater" ELSE "Equal"

\* OrderedFloat == OrderedFloat: a NaN equals every NaN, the rest is ==
OrderedFloatEq(x, y) ==
    IF is_nan(x) THEN is_nan(y)
    ELSE ~is_nan(y) /\ FloatNum(x) = FloatNum(y)

\* a float order that takes an unordered pair for Less
OrderedFloatCmpPartial(x, y) ==
    IF ~is_nan(x) /\ ~is_nan(y) THEN IntCmp(FloatNum(x), FloatNum(y))
    ELSE "Less"

\* OrderedFloat::cmp: partial_cmp where it is defined, a NaN above the rest
OrderedFloatCmp(x, y) ==
    IF ~is_nan(x) /\ ~is_nan(y) THEN IntCmp(FloatNum(x), FloatNum(y))
    ELSE IF is_nan(x) THEN (IF is_nan(y) THEN "Equal" ELSE "Greater")
    ELSE "Less"

\* a hash of the bits as they are
OrderedFloatHashRaw(x) == x

\* OrderedFloat::hash: the bits, one pattern for every NaN and one for zero
OrderedFloatHash(x) ==
    IF is_nan(x) THEN 7
    ELSE IF FloatMag(x) = 0 THEN 0
    ELSE x

\* the UTF-8 bytes of the texts of the model
Utf8(s) ==
    CASE s = ""   -> <<>>
      [] s = "x"  -> <<120>>
      [] s = "y"  -> <<121>>
      [] s = "xy" -> <<120, 121>>

\* the code point of the characters of the model
CodePoint(c) ==
    CASE c = "a" -> 97
      [] c = "c" -> 99

RECURSIVE eq(_, _)

\* impl PartialEq for Value, on dereferenced content
eq(a, b) ==
    LET veq(p, q) == Len(p) = Len(q) /\ \A i \in 1..Len(p) : eq(p[i], q[i])
    IN IF a.tag # b.tag THEN FALSE
       ELSE CASE a.tag = "Bool"               -> a.bit = b.bit
              [] a.tag \in IntTags            -> a.n = b.n
              [] a.tag \in FloatTags          -> OrderedFloatEq(a.n, b.n)
              [] a.tag = "Char"               -> a.c = b.c
              [] a.tag = "String"             -> a.s = b.s
              [] a.tag = "Unit"               -> TRUE
              [] a.tag = "Option"             -> veq(a.o, b.o)
              [] a.tag = "Newtype"            -> eq(a.x, b.x)
              [] a.tag = "Seq"                -> veq(a.e, b.e)
              [] a.tag = "Map"                -> veq(a.k, b.k) /\ veq(a.v, b.v)
              [] a.tag = "Bytes"              -> a.b = b.b

\* Vec<Value> == Vec<Value>
VecEq(p, q) == Len(p) = Len(q) /\ \A i \in 1..Len(p) : eq(p[i], q[i])

\* Value == Value through the handles
ValueEq(hp, a, b) == eq(Deref(hp, a), Deref(hp, b))

(***************************************************************************)
(* Order and hash, on dereferenced content like eq                         *)
(***************************************************************************)
\* the rank of the variants in the order the enum declares them
discriminant_decl(v) ==
    CASE v.tag = "Unit" -> 0
      [] v.tag = "Bool" -> 1
      [] v.tag = "U8" -> 2
      [] v.tag = "U16" -> 3
      [] v.tag = "U32" -> 4
      [] v.tag = "U64" -> 5
      [] v.tag = "I8" -> 6
      [] v.tag = "I16" -> 7
      [] v.tag = "I32" -> 8
      [] v.tag = "I64" -> 9
      [] v.tag = "F32" -> 10
      [] v.tag = "F64" -> 11
      [] v.tag = "Char" -> 12
      [] v.tag = "Option" -> 13
      [] v.tag = "Newtype" -> 14
      [] v.tag = "String" -> 15
      [] v.tag = "Bytes" -> 16
      [] v.tag = "Seq" -> 17
      [] v.tag = "Map" -> 18

\* Value::discriminant
discriminant(v) ==
    CASE v.tag = "Bool" -> 0
      [] v.tag = "U8" -> 1
      [] v.tag = "U16" -> 2
      [] v.tag = "U32" -> 3
      [] v.tag = "U64" -> 4
      [] v.tag = "I8" -> 5
      [] v.tag = "I16" -> 6
      [] v.tag = "I32" -> 7
      [] v.tag = "I64" -> 8
      [] v.tag = "F32" -> 9
      [] v.tag = "F64" -> 10
      [] v.tag = "Char" -> 11
      [] v.tag = "String" -> 12
      [] v.tag = "Unit" -> 13
      [] v.tag = "Option" -> 14
      [] v.tag = "Newtype" -> 15
      [] v.tag = "Seq" -> 16
      [] v.tag = "Map" -> 17
      [] v.tag = "Bytes" -> 18

\* [u8]::cmp: the first position that differs decides, then the length
BytesCmp(p, q) ==
    LET n == IF Len(p) < Len(q) THEN Len(p) ELSE Len(q)
        F[i \in 1..(n + 1)] ==
            IF i > n THEN IntCmp(Len(p), Len(q))
            ELSE IF p[i] # q[i] THEN IntCmp(p[i], q[i])
            ELSE F[i + 1]
    IN F[1]

RECURSIVE cmp(_, _)

\* impl Ord for Value
cmp(a, b) ==
    LET vcmp(p, q) ==
            LET n == IF Len(p) < Len(q) THEN Len(p) ELSE Len(q)
                F[i \in 1..(n + 1)] ==
                    IF i > n THEN IntCmp(Len(p), Len(q))
                    ELSE LET c == cmp(p[i], q[i])
                         IN IF c # "Equal" THEN c ELSE F[i + 1]
            IN F[1]
    IN IF a.tag # b.tag THEN IntCmp(discriminant(a), discriminant(b))
       ELSE CASE a.tag = "Bool" ->
                    IntCmp(IF a.bit THEN 1 ELSE 0, IF b.bit THEN 1 ELSE 0)
              [] a.tag \in IntTags   -> IntCmp(a.n, b.n)
              [] a.tag \in FloatTags -> OrderedFloatCmp(a.n, b.n)
              [] a.tag = "Char"      -> IntCmp(CodePoint(a.c), CodePoint(b.c))
              [] a.tag = "String"    -> BytesCmp(Utf8(a.s), Utf8(b.s))
              [] a.tag = "Unit"      -> "Equal"
              [] a.tag = "Option"    ->
                    IF a.o = <<>> THEN (IF b.o = <<>> THEN "Equal" ELSE "Less")
                    ELSE IF b.o = <<>> THEN "Greater"
                    ELSE cmp(a.o[1], b.o[1])
              [] a.tag = "Newtype"   -> cmp(a.x, b.x)
              [] a.tag = "Seq"       -> vcmp(a.e, b.e)
              [] a.tag = "Map"       ->
                    LET c == vcmp(a.k, b.k)
                    IN IF c # "Equal" THEN c ELSE vcmp(a.v, b.v)
              [] a.tag = "Bytes"     -> BytesCmp(a.b, b.b)

RECURSIVE hash(_)

\* impl Hash for Value: the writes the hasher receives, in order, each a
\* pair of the write method and the number written
hash(v) ==
    LET W(w, x) == <<<<w, x>>>>
        slice(bs) == [i \in 1..Len(bs) |-> <<"write", bs[i]>>]
        vec(vs) ==
            LET F[i \in 0..Len(vs)] ==
                    IF i = 0 THEN W("usize", Len(vs)) ELSE F[i - 1] \o hash(vs[i])
            IN F[Len(vs)]
    IN W("usize", discriminant(v)) \o
       CASE v.tag = "Bool"      -> W("u8", IF v.bit THEN 1 ELSE 0)
         [] v.tag \in IntTags   -> W(v.tag, v.n)
         [] v.tag \in FloatTags -> W("u64", OrderedFloatHash(v.n))
         [] v.tag = "Char"      -> W("u32", CodePoint(v.c))
         [] v.tag = "String"    -> slice(Utf8(v.s)) \o W("u8", 255)
         [] v.tag = "Unit"      -> <<>>
         [] v.tag = "Option"    ->
                IF v.o = <<>> THEN W("isize", 0) ELSE W("isize", 1) \o hash(v.o[1])
         [] v.tag = "Newtype"   -> hash(v.x)
         [] v.tag = "Seq"       -> vec(v.e)
         [] v.tag = "Map"       -> vec(v.k) \o vec(v.v)
         [] v.tag = "Bytes"     -> W("usize", Len(v.b)) \o slice(v.b)

(***************************************************************************)
(* The Dedup session.  The operators thread the record                     *)
(*   S = [heap, blobs, strings, vectors, objects]                          *)
(* and return [S |-> the state after, r |-> the returned handle or value]. *)
(***************************************************************************)
Session(hp, b, s, v, o) ==
    [heap |-> hp, blobs |-> b, strings |-> s, vectors |-> v, objects |-> o]

\* Dedup::new
new == [blobs |-> {}, strings |-> {}, vectors |-> {}, objects |-> {}]

\* HashSet::get on each of the four sets: the registered handles whose
\* content equals the content behind `value`
GetBlob(S, value) ==
    {h \in S.blobs : S.heap[h].b = S.heap[value].b}

\* lookup of a string by the identity of the handle
GetStringByPtr(S, value) ==
    {h \in S.strings : h = value}

GetString(S, value) ==
    {h \in S.strings : S.heap[h].s = S.heap[value].s}

\* lookup by the identity of the handle instead of its content
GetSeqByPtr(S, value) ==
    {h \in S.vectors : h = value}

GetSeq(S, value) ==
    {h \in S.vectors :
        VecEq(DerefVec(S.heap, S.heap[h].e), DerefVec(S.heap, S.heap[value].e))}

\* lookup that takes the entries of a collection as an unordered set
GetMapUnordered(S, value) ==
    LET Pairs(c) ==
            {<<Deref(S.heap, S.heap[S.heap[c].k].e[i]), Deref(S.heap, S.heap[c].v[i])>> :
                i \in 1..Len(S.heap[c].v)}
        Same(P, Q) ==
            /\ \A x \in P : \E y \in Q : eq(x[1], y[1]) /\ eq(x[2], y[2])
            /\ \A y \in Q : \E x \in P : eq(x[1], y[1]) /\ eq(x[2], y[2])
    IN {h \in S.objects : Same(Pairs(h), Pairs(value))}

GetMap(S, value) ==
    {h \in S.objects :
        /\ VecEq(DerefVec(S.heap, S.heap[S.heap[h].k].e),
                 DerefVec(S.heap, S.heap[S.heap[value].k].e))
        /\ VecEq(DerefVec(S.heap, S.heap[h].v),
                 DerefVec(S.heap, S.heap[value].v))}

\* a hit that hands back the argument instead of the registered handle
HitKeepsArg(S, found, value) ==
    [S |-> S, r |-> value]

\* Some(value) => value.clone(): the registered handle is returned with its
\* count raised, and the argument handle goes out of scope.
Hit(S, found, value) ==
    LET h == CHOOSE x \in found : TRUE
    IN [S |-> [S EXCEPT !.heap = DropArc(ArcClone(S.heap, h), value)],
        r |-> h]

\* a miss that registers a copy of the content and returns the argument
dedup_blob_copy(S, value) ==
    LET found == GetBlob(S, value)
    IN IF found # {}
       THEN Hit(S, found, value)
       ELSE [S |-> [S EXCEPT !.heap = ArcNew(S.heap, BytesCell(S.heap[value].b)),
                             !.blobs = @ \cup {Fresh(S.heap)}],
             r |-> value]

dedup_blob(S, value) ==
    LET found == GetBlob(S, value)
    IN IF found # {}
       THEN Hit(S, found, value)
       ELSE [S |-> [S EXCEPT !.heap = ArcClone(S.heap, value),
                             !.blobs = @ \cup {value}],
             r |-> value]

\* a string hit that hands back the argument
dedup_string_own(S, value) ==
    LET found == GetString(S, value)
    IN IF found # {}
       THEN [S |-> S, r |-> value]
       ELSE [S |-> [S EXCEPT !.heap = ArcClone(S.heap, value),
                             !.strings = @ \cup {value}],
             r |-> value]

\* a registry that keeps the handle without owning a count of it
dedup_string_weak(S, value) ==
    LET found == GetString(S, value)
    IN IF found # {}
       THEN Hit(S, found, value)
       ELSE [S |-> [S EXCEPT !.strings = @ \cup {value}], r |-> value]

dedup_string(S, value) ==
    LET found == GetString(S, value)
    IN IF found # {}
       THEN Hit(S, found, value)
       ELSE [S |-> [S EXCEPT !.heap = ArcClone(S.heap, value),
                             !.strings = @ \cup {value}],
             r |-> value]

\* a miss that returns the argument and registers nothing
dedup_seq_noinsert(S, value) ==
    LET found == GetSeq(S, value)
    IN IF found # {}
       THEN Hit(S, found, value)
       ELSE [S |-> S, r |-> value]

dedup_seq(S, value) ==
    LET found == GetSeq(S, value)
    IN IF found # {}
       THEN Hit(S, found, value)
       ELSE [S |-> [S EXCEPT !.heap = ArcClone(S.heap, value),
                             !.vectors = @ \cup {value}],
             r |-> value]

dedup_map(S, value) ==
    LET found == GetMap(S, value)
    IN IF found # {}
       THEN Hit(S, found, value)
       ELSE [S |-> [S EXCEPT !.heap = ArcClone(S.heap, value),
                             !.objects = @ \cup {value}],
             r |-> value]

RECURSIVE dedup(_, _), dedup_value_vec(_, _)

\* a collect that leaves out an element equal to its successor
dedup_value_vec_uniq(S, vec) ==
    IF vec = <<>>
    THEN [S |-> S, r |-> <<>>]
    ELSE LET a == dedup(S, Head(vec))
             b == dedup_value_vec(a.S, Tail(vec))
         IN IF b.r # <<>> /\ Head(b.r) = a.r
            THEN [S |-> b.S, r |-> b.r]
            ELSE [S |-> b.S, r |-> <<a.r>> \o b.r]

\* a collect that reverses the elements
dedup_value_vec_rev(S, vec) ==
    IF vec = <<>>
    THEN [S |-> S, r |-> <<>>]
    ELSE LET a == dedup(S, Head(vec))
             b == dedup_value_vec(a.S, Tail(vec))
         IN [S |-> b.S, r |-> b.r \o <<a.r>>]

\* vec.into_iter().map(|x| self.dedup(x)).collect()
dedup_value_vec(S, vec) ==
    IF vec = <<>>
    THEN [S |-> S, r |-> <<>>]
    ELSE LET a == dedup(S, Head(vec))
             b == dedup_value_vec(a.S, Tail(vec))
         IN [S |-> b.S, r |-> <<a.r>> \o b.r]

\* a Seq arm that looks the argument up as it is, its elements not visited
DedupSeqArmShallow(S, elements) ==
    LET q == dedup_seq(S, elements)
    IN [S |-> q.S, r |-> Shared("Seq", q.r)]

\* Value::Seq arm.  `elements` is the argument handle; it is dropped when
\* the arm ends.
DedupSeqArm(S, elements) ==
    LET src  == S.heap[elements].e
        S1   == [S EXCEPT !.heap = CloneVec(S.heap, src)]
        d    == dedup_value_vec(S1, src)
        n    == Fresh(d.S.heap)
        S2   == [d.S EXCEPT !.heap = ArcNew(d.S.heap, VecCell(d.r))]
        q    == dedup_seq(S2, n)
    IN [S |-> [q.S EXCEPT !.heap = DropArc(q.S.heap, elements)],
        r |-> Shared("Seq", q.r)]

\* a Map arm that leaves out `let k = self.dedup_seq(k)`
DedupMapArmOwnKeys(S, object) ==
    LET ksrc == S.heap[S.heap[object].k].e
        vsrc == S.heap[object].v
        S1   == [S EXCEPT !.heap = CloneVec(S.heap, ksrc)]
        dk   == dedup_value_vec(S1, ksrc)
        kn   == Fresh(dk.S.heap)
        S2   == [dk.S EXCEPT !.heap = ArcNew(dk.S.heap, VecCell(dk.r))]
        S3   == [S2 EXCEPT !.heap = CloneVec(S2.heap, vsrc)]
        dv   == dedup_value_vec(S3, vsrc)
        on   == Fresh(dv.S.heap)
        S4   == [dv.S EXCEPT !.heap = ArcNew(dv.S.heap, KV(kn, dv.r))]
        m    == dedup_map(S4, on)
    IN [S |-> [m.S EXCEPT !.heap = DropArc(m.S.heap, object)],
        r |-> Shared("Map", m.r)]

\* a Map arm that passes the values through dedup_seq as well
DedupMapArmValuesShared(S, object) ==
    LET ksrc == S.heap[S.heap[object].k].e
        vsrc == S.heap[object].v
        S1   == [S EXCEPT !.heap = CloneVec(S.heap, ksrc)]
        dk   == dedup_value_vec(S1, ksrc)
        kn   == Fresh(dk.S.heap)
        S2   == [dk.S EXCEPT !.heap = ArcNew(dk.S.heap, VecCell(dk.r))]
        S3   == [S2 EXCEPT !.heap = CloneVec(S2.heap, vsrc)]
        dv   == dedup_value_vec(S3, vsrc)
        hv   == CloneVec(dv.S.heap, dv.r)
        w    == dedup_seq([dv.S EXCEPT !.heap = ArcNew(hv, VecCell(dv.r))], Fresh(hv))
        k    == dedup_seq([w.S EXCEPT !.heap = DropArc(w.S.heap, w.r)], kn)
        on   == Fresh(k.S.heap)
        S4   == [k.S EXCEPT !.heap = ArcNew(k.S.heap, KV(k.r, dv.r))]
        m    == dedup_map(S4, on)
    IN [S |-> [m.S EXCEPT !.heap = DropArc(m.S.heap, object)],
        r |-> Shared("Map", m.r)]

\* Value::Map arm
DedupMapArm(S, object) ==
    LET ksrc == S.heap[S.heap[object].k].e
        vsrc == S.heap[object].v
        S1   == [S EXCEPT !.heap = CloneVec(S.heap, ksrc)]
        dk   == dedup_value_vec(S1, ksrc)
        kn   == Fresh(dk.S.heap)
        S2   == [dk.S EXCEPT !.heap = ArcNew(dk.S.heap, VecCell(dk.r))]
        S3   == [S2 EXCEPT !.heap = CloneVec(S2.heap, vsrc)]
        dv   == dedup_value_vec(S3, vsrc)
        k    == dedup_seq(dv.S, kn)
        on   == Fresh(k.S.heap)
        S4   == [k.S EXCEPT !.heap = ArcNew(k.S.heap, KV(k.r, dv.r))]
        m    == dedup_map(S4, on)
    IN [S |-> [m.S EXCEPT !.heap = DropArc(m.S.heap, object)],
        r |-> Shared("Map", m.r)]

\* a dedup with arms for Option and Newtype that visit the payload
dedup_boxes(S, value) ==
    CASE value.tag = "Bytes" ->
            LET d == dedup_blob(S, value.h)
            IN [S |-> d.S, r |-> Shared("Bytes", d.r)]
      [] value.tag = "String" ->
            LET d == dedup_string(S, value.h)
            IN [S |-> d.S, r |-> Shared("String", d.r)]
      [] value.tag = "Seq" -> DedupSeqArm(S, value.h)
      [] value.tag = "Map" -> DedupMapArm(S, value.h)
      [] value.tag = "Option" ->
            LET d == dedup_value_vec(S, value.o)
            IN [S |-> d.S, r |-> [tag |-> "Option", o |-> d.r]]
      [] value.tag = "Newtype" ->
            LET d == dedup(S, value.x)
            IN [S |-> d.S, r |-> Newtype(d.r)]
      [] OTHER -> [S |-> S, r |-> value]

\* a catch-all arm `_ => Value::Unit`
dedup_catchall_unit(S, value) ==
    CASE value.tag = "Bytes" ->
            LET d == dedup_blob(S, value.h)
            IN [S |-> d.S, r |-> Shared("Bytes", d.r)]
      [] value.tag = "String" ->
            LET d == dedup_string(S, value.h)
            IN [S |-> d.S, r |-> Shared("String", d.r)]
      [] value.tag = "Seq" -> DedupSeqArm(S, value.h)
      [] value.tag = "Map" -> DedupMapArm(S, value.h)
      [] OTHER -> [S |-> S, r |-> Unit]

\* impl Deduplicator for Dedup
dedup(S, value) ==
    CASE value.tag = "Bytes" ->
            LET d == dedup_blob(S, value.h)
            IN [S |-> d.S, r |-> Shared("Bytes", d.r)]
      [] value.tag = "String" ->
            LET d == dedup_string(S, value.h)
            IN [S |-> d.S, r |-> Shared("String", d.r)]
      [] value.tag = "Seq" -> DedupSeqArm(S, value.h)
      [] value.tag = "Map" -> DedupMapArm(S, value.h)
      [] OTHER -> [S |-> S, r |-> value]

(***************************************************************************)
(* The caller.  `vals` are the values the caller owns, each with the flag  *)
(* `d` telling that it was returned by dedup of this session; `built`      *)
(* counts the documents constructed so far.  `last` records the dedup call *)
(* that has just returned: its argument, the content of the argument       *)
(* before the call, and the returned value.                                *)
(***************************************************************************)
Entry(v, d) == [v |-> v, d |-> d]

NoCall == [op |-> "none"]

S0 == Session(heap, blobs, strings, vectors, objects)

\* s without the positions in `used`
RemoveAt(s, used) ==
    LET F[i \in 0..Len(s)] ==
            IF i = 0 THEN <<>>
            ELSE IF i \in used THEN F[i - 1] ELSE Append(F[i - 1], s[i])
    IN F[Len(s)]

\* What the caller puts into a document under construction: a new string,
\* a new byte-blob, a scalar, or a clone of a value it owns.
StrArgs == [src : {"str"}, s : Strs]
BytesArgs == [src : {"bytes"}, b : ByteStrs]
LitArgs == [src : {"lit"}, c : ElemScalars]
OwnArgs == [src : {"own"}, i : 1..Len(vals)]

ElemArgs == StrArgs \cup OwnArgs
ValArgs == LitArgs \cup OwnArgs
BoxArgs == [src : {"str"}, s : {"x"}] \cup BytesArgs \cup OwnArgs

Lists(A) == UNION {[1..n -> A] : n \in 0..MaxLen}

\* the key lists of the collections the caller builds
KeyLists ==
    LET k(s) == [src |-> "str", s |-> s]
    IN {<<>>, <<k("x")>>, <<k("x"), k("y")>>, <<k("y"), k("x")>>}

ValLists(n) == [1..n -> ValArgs]

\* Value::string, Value::bytes, a scalar variant, or value.clone()
MkArg(hp, a) ==
    CASE a.src = "str" ->
            [hp |-> ArcNew(hp, StrCell(a.s)), r |-> Shared("String", Fresh(hp))]
      [] a.src = "bytes" ->
            [hp |-> ArcNew(hp, BytesCell(a.b)), r |-> Shared("Bytes", Fresh(hp))]
      [] a.src = "lit" -> [hp |-> hp, r |-> a.c]
      [] a.src = "own" ->
            [hp |-> CloneValue(hp, vals[a.i].v), r |-> vals[a.i].v]

RECURSIVE MkArgs(_, _)

\* the elements of a vector, built left to right
MkArgs(hp, args) ==
    IF args = <<>>
    THEN [hp |-> hp, r |-> <<>>]
    ELSE LET a == MkArg(hp, Head(args))
             b == MkArgs(a.hp, Tail(args))
         IN [hp |-> b.hp, r |-> <<a.r>> \o b.r]

Init ==
    /\ heap = <<>>
    /\ blobs = new.blobs
    /\ strings = new.strings
    /\ vectors = new.vectors
    /\ objects = new.objects
    /\ vals = <<>>
    /\ built = 0
    /\ last = NoCall

\* the caller has a new document v
Built(v) ==
    /\ built < MaxVals
    /\ Len(vals) < MaxVals
    /\ vals' = Append(vals, Entry(v, FALSE))
    /\ built' = built + 1
    /\ last' = NoCall
    /\ UNCHANGED <<blobs, strings, vectors, objects>>

\* Value::string / Value::bytes
NewLeaf(a) ==
    /\ Built(MkArg(heap, a).r)
    /\ heap' = MkArg(heap, a).hp

\* Value::seq
MakeSeq(args) ==
    /\ Built(Shared("Seq", Fresh(MkArgs(heap, args).hp)))
    /\ LET m == MkArgs(heap, args)
       IN heap' = ArcNew(m.hp, VecCell(m.r))

\* Value::Map(Arc::new(KV(Arc::new(keys), values)))
MakeMap(kargs, vargs) ==
    LET k   == MkArgs(heap, kargs)
        v   == MkArgs(k.hp, vargs)
        hp1 == ArcNew(v.hp, VecCell(k.r))
    IN /\ Built(Shared("Map", Fresh(hp1)))
       /\ heap' = ArcNew(hp1, KV(Fresh(v.hp), v.r))

\* Value::Option(Some(Box::new(v)))
MakeSome(a) ==
    /\ Built(Some(MkArg(heap, a).r))
    /\ heap' = MkArg(heap, a).hp

\* Value::Option(None)
MakeNone ==
    /\ Built(None)
    /\ heap' = heap

\* Value::Newtype(Box::new(v))
MakeNewtype(a) ==
    /\ Built(Newtype(MkArg(heap, a).r))
    /\ heap' = MkArg(heap, a).hp

\* drop(value) of a value that dedup returned
DropVal(i) ==
    /\ vals[i].d
    /\ heap' = DropValue(heap, vals[i].v)
    /\ vals' = RemoveAt(vals, {i})
    /\ last' = NoCall
    /\ UNCHANGED <<blobs, strings, vectors, objects, built>>

Call(value, d, r) ==
    [op |-> "dedup", in |-> value, d |-> d,
     content |-> Deref(heap, value), out |-> r]

\* dedup.dedup(value) on a value the caller owns; the result takes its place
Dedup(i) ==
    LET res == dedup(S0, vals[i].v)
    IN /\ heap' = res.S.heap
       /\ blobs' = res.S.blobs
       /\ strings' = res.S.strings
       /\ vectors' = res.S.vectors
       /\ objects' = res.S.objects
       /\ vals' = [vals EXCEPT ![i] = Entry(res.r, TRUE)]
       /\ last' = Call(vals[i].v, vals[i].d, res.r)
       /\ UNCHANGED built

\* dedup.dedup(x) on a scalar the caller holds nowhere else; the result is
\* not kept
DedupScalar(x) ==
    /\ vals = <<>>
    /\ LET res == dedup(S0, x)
       IN /\ heap' = res.S.heap
          /\ blobs' = res.S.blobs
          /\ strings' = res.S.strings
          /\ vectors' = res.S.vectors
          /\ objects' = res.S.objects
          /\ last' = Call(x, FALSE, res.r)
    /\ UNCHANGED <<vals, built>>

Next ==
    \/ \E a \in StrArgs \cup BytesArgs : NewLeaf(a)
    \/ \E args \in Lists(ElemArgs) : MakeSeq(args)
    \/ \E kargs \in KeyLists : \E vargs \in ValLists(Len(kargs)) : MakeMap(kargs, vargs)
    \/ \E a \in BoxArgs : MakeSome(a)
    \/ MakeNone
    \/ \E a \in BoxArgs : MakeNewtype(a)
    \/ \E i \in 1..Len(vals) : DropVal(i)
    \/ \E i \in 1..Len(vals) : Dedup(i)
    \/ \E x \in Scalars : DedupScalar(x)

Spec == Init /\ [][Next]_vars

(***************************************************************************)
(* Diagnostics of the session.  They read the session and leave it as it   *)
(* was, so each is a function of the state; the iteration order of a       *)
(* HashSet is not fixed, and `o` is the order the iterator takes.          *)
(***************************************************************************)
\* the orders in which an iterator may produce the entries of a set
Orders(set) ==
    {o \in [1..Cardinality(set) -> set] :
        \A i, j \in 1..Cardinality(set) : i # j => o[i] # o[j]}

\* Dedup::strings: each entry is cloned, and the count is read from the clone
strings_counts(S, o) ==
    [i \in 1..Len(o) |->
        LET hp == ArcClone(S.heap, o[i])
        IN <<hp[o[i]].s, strong_count(hp, o[i])>>]

\* Dedup::vectors: the copies of the contents collected so far are alive
\* while the later entries are read
vectors_counts(S, o) ==
    LET F[i \in 0..Len(o)] ==
            IF i = 0 THEN [hp |-> S.heap, r |-> <<>>]
            ELSE LET x   == o[i]
                     hp1 == ArcClone(F[i - 1].hp, x)
                     hp2 == CloneVec(hp1, hp1[x].e)
                 IN [hp |-> DropArc(hp2, x),
                     r  |-> Append(F[i - 1].r, <<hp1[x].e, strong_count(hp2, x)>>)]
    IN F[Len(o)].r

\* Dedup::objects
objects_counts(S, o) ==
    LET F[i \in 0..Len(o)] ==
            IF i = 0 THEN [hp |-> S.heap, r |-> <<>>]
            ELSE LET x   == o[i]
                     hp1 == ArcClone(F[i - 1].hp, x)
                     hp2 == CloneVec(ArcClone(hp1, hp1[x].k), hp1[x].v)
                 IN [hp |-> DropArc(hp2, x),
                     r  |-> Append(F[i - 1].r,
                                   <<hp1[x].k, hp1[x].v, strong_count(hp2, x)>>)]
    IN F[Len(o)].r

\* std::mem::size_of::<Value>() and std::mem::size_of::<KV>() of a 64-bit
\* target: a tag and a payload of one word; an Arc and a Vec
SizeOfValue == 16
SizeOfKV == 32

\* a size whose sequences count their elements, not their bytes
CostUnscaled(S, h) ==
    LET c == S.heap[h]
    IN CASE c.kind = "bytes" -> Len(c.b)
         [] c.kind = "str"   -> Len(Utf8(c.s))
         [] c.kind = "vec"   -> Len(c.e)
         [] c.kind = "kv"    -> SizeOfKV + Len(c.v) * SizeOfValue

\* what one entry adds to `res` in Dedup::size
Cost(S, h) ==
    LET c == S.heap[h]
    IN CASE c.kind = "bytes" -> Len(c.b)
         [] c.kind = "str"   -> Len(Utf8(c.s))
         [] c.kind = "vec"   -> Len(c.e) * SizeOfValue
         [] c.kind = "kv"    -> SizeOfKV + Len(c.v) * SizeOfValue

RECURSIVE SumCost(_, _)

\* for x in set.iter() { res += ... }
SumCost(S, set) ==
    IF set = {} THEN 0
    ELSE LET x == CHOOSE y \in set : TRUE
         IN Cost(S, x) + SumCost(S, set \ {x})

\* Dedup::size
size(S) ==
    SumCost(S, S.blobs) + SumCost(S, S.strings)
        + SumCost(S, S.vectors) + SumCost(S, S.objects)

\* impl Display for Dedup: the entries each of the three sections lists
\* (the section of the blobs is commented out)
fmt(S) ==
    [strings |-> {h \in S.strings : strong_count(S.heap, h) > 100},
     vectors |-> {h \in S.vectors : strong_count(S.heap, h) > 100},
     objects |-> {h \in S.objects : strong_count(S.heap, h) > 100}]

(***************************************************************************)
(* The record batch of dedup_tests::dedup_record: a sequence of            *)
(* collections with the same string keys in the same order and integer     *)
(* values, every key a string of its own, fed to a new session.            *)
(***************************************************************************)
RecordKeys == {<<"x">>, <<"x", "y">>, <<"y", "x">>}

\* one record { key: number, ... }
BuildRecord(hp, keys, row) ==
    LET k   == MkArgs(hp, [i \in 1..Len(keys) |-> [src |-> "str", s |-> keys[i]]])
        hp1 == ArcNew(k.hp, VecCell(k.r))
        v   == [i \in 1..Len(keys) |-> Num("U64", row[i])]
    IN [hp |-> ArcNew(hp1, KV(Fresh(k.hp), v)), r |-> Shared("Map", Fresh(hp1))]

RECURSIVE BuildBatch(_, _, _)

\* the records of the batch, built left to right
BuildBatch(hp, keys, rows) ==
    IF rows = <<>>
    THEN [hp |-> hp, r |-> <<>>]
    ELSE LET a == BuildRecord(hp, keys, Head(rows))
             b == BuildBatch(a.hp, keys, Tail(rows))
         IN [hp |-> b.hp, r |-> <<a.r>> \o b.r]

\* the caller builds the batch, its only document
MakeBatch(keys, rows) ==
    /\ built = 0
    /\ Built(Shared("Seq", Fresh(BuildBatch(heap, keys, rows).hp)))
    /\ LET b == BuildBatch(heap, keys, rows)
       IN heap' = ArcNew(b.hp, VecCell(b.r))

NextRecord ==
    \/ \E keys \in RecordKeys, n \in 1..MaxRecords :
          \E rows \in [1..n -> [1..Len(keys) -> {0, 1}]] : MakeBatch(keys, rows)
    \/ \E i \in 1..Len(vals) : Dedup(i)
    \/ \E i \in 1..Len(vals) : DropVal(i)

SpecRecord == Init /\ [][NextRecord]_vars

(***************************************************************************)
(* Comparing and hashing values: the caller takes two values and, once,    *)
(* compares them or hashes both.  The values are given by their content,   *)
(* every shared node with the address of its storage.                      *)
(***************************************************************************)
Str(h, s) == [tag |-> "String", h |-> h, s |-> s]
Blob(h, b) == [tag |-> "Bytes", h |-> h, b |-> b]
SeqOf(h, e) == [tag |-> "Seq", h |-> h, e |-> e]
MapOf(h, kh, k, v) == [tag |-> "Map", h |-> h, kh |-> kh, k |-> k, v |-> v]

\* zero, one, infinity and a NaN, of either sign
FloatBits == {0, 2, 6, 7, 8, 10, 15}

OrdScalars ==
    {Unit, Bool(FALSE), Bool(TRUE), Char("a"), Char("c")}
        \cup {Num(t, 0) : t \in IntTags}
        \cup {Num("U8", 1), Num("I8", 0 - 1)}
        \cup {Num("F32", n) : n \in {0, 7, 8, 15}}
        \cup {Num("F64", n) : n \in FloatBits}

OrdLeaves ==
    {Str(1, ""), Str(1, "x"), Str(2, "x"), Str(1, "xy"), Str(1, "y")}
        \cup {Blob(1, <<>>), Blob(1, <<1>>), Blob(2, <<1>>), Blob(1, <<1, 0>>), Blob(1, <<2>>)}

OrdSeqs ==
    {SeqOf(3, e) : e \in Lists({Num("U8", 0), Str(1, "x"), Str(2, "x"), Str(1, "y")})}

OrdMaps ==
    UNION {{MapOf(5, 4, k, v) :
                k \in [1..n -> {Str(1, "x"), Str(1, "y")}],
                v \in [1..n -> {Num("U8", 0), Str(2, "x")}]} : n \in 0..MaxLen}

OrdBoxed ==
    LET P == {Num("U8", 0), Num("F32", 7), Num("F32", 15), Str(1, "x"), Str(2, "x"),
              None, SeqOf(3, <<Str(1, "x")>>)}
    IN {None} \cup {Some(p) : p \in P} \cup {Newtype(p) : p \in P}

Universe == OrdScalars \cup OrdLeaves \cup OrdSeqs \cup OrdMaps \cup OrdBoxed

\* a.cmp(&b), b.cmp(&a) and a == b
Compare(a, b) ==
    /\ last' = [op |-> "cmp", a |-> a, b |-> b,
                ab |-> cmp(a, b), ba |-> cmp(b, a), e |-> eq(a, b)]
    /\ UNCHANGED <<heap, blobs, strings, vectors, objects, vals, built>>

\* a.hash(..), b.hash(..) and a == b
HashBoth(a, b) ==
    /\ last' = [op |-> "hash", a |-> a, b |-> b,
                ha |-> hash(a), hb |-> hash(b), e |-> eq(a, b)]
    /\ UNCHANGED <<heap, blobs, strings, vectors, objects, vals, built>>

NextOrd ==
    \/ /\ last = NoCall
       /\ \E a, b \in Universe : Compare(a, b)
    \/ /\ last = NoCall
       /\ \E a, b \in Universe : HashBoth(a, b)

SpecOrd == Init /\ [][NextOrd]_vars

\* every handle the session or the caller holds points at a live cell
TypeOK ==
    /\ blobs \cup strings \cup vectors \cup objects \subseteq DOMAIN heap
    /\ Len(vals) <= MaxVals
    /\ built <= MaxVals

(***************************************************************************)
(* Properties                                                              *)
(***************************************************************************)
ScalarTags == {"Unit", "Bool", "Char"} \cup IntTags \cup FloatTags

Called == last.op = "dedup"

\* the four sets of the session
Sets == <<blobs, strings, vectors, objects>>

\* the handle of a shared value is the one registered for its shape
Registered(v) ==
    CASE v.tag = "String" -> v.h \in strings
      [] v.tag = "Bytes"  -> v.h \in blobs
      [] v.tag = "Seq"    -> v.h \in vectors
      [] v.tag = "Map"    -> v.h \in objects
      [] OTHER            -> TRUE

RECURSIVE Nodes(_)

\* every shared sub-value of a dereferenced content, the key sequence of a
\* collection included, at any depth and under any wrapper
Nodes(t) ==
    LET Of(ts) == UNION {Nodes(ts[i]) : i \in 1..Len(ts)}
    IN CASE t.tag \in {"String", "Bytes"} -> {t}
         [] t.tag = "Seq" -> {t} \cup Of(t.e)
         [] t.tag = "Map" ->
                {t, [tag |-> "Seq", h |-> t.kh, e |-> t.k]} \cup Of(t.k) \cup Of(t.v)
         [] t.tag = "Option" -> Of(t.o)
         [] t.tag = "Newtype" -> Nodes(t.x)
         [] OTHER -> {}

\* the contents of the values dedup returned that the caller still holds
Returned == {Deref(heap, vals[i].v) : i \in {j \in 1..Len(vals) : vals[j].d}}

\* C1: after dedup of a sequence, elements that are strings with the same
\* text are one shared instance (the same address), not merely equal.
C1_EqualStringsShareInstance ==
    (Called /\ last.out.tag = "Seq") =>
        LET e == heap[last.out.h].e
        IN \A i, j \in 1..Len(e) :
              (/\ e[i].tag = "String"
               /\ e[j].tag = "String"
               /\ heap[e[i].h].s = heap[e[j].h].s) => e[i].h = e[j].h

\* the argument was a sequence holding the same text in two separate
\* instances, and the result holds one instance at both places
C1_Witness ==
    /\ Called
    /\ last.content.tag = "Seq"
    /\ \E i, j \in 1..Len(last.content.e) :
          /\ i # j
          /\ last.content.e[i].tag = "String"
          /\ last.content.e[j].tag = "String"
          /\ last.content.e[i].s = last.content.e[j].s
          /\ last.content.e[i].h # last.content.e[j].h
          /\ heap[last.out.h].e[i].h = heap[last.out.h].e[j].h

\* C2: in the values the session returned, any two sub-values of the same
\* shareable shape that are structurally equal are the same instance,
\* wherever they occur (in one returned value or in two).
C2_MaximalSharing ==
    \A a, b \in UNION {Nodes(r) : r \in Returned} :
        (a.tag = b.tag /\ eq(a, b)) => a.h = b.h

RECURSIVE Bare(_)

\* the shared sub-values that dedup reaches: those under no Option and no
\* Newtype
Bare(t) ==
    LET Of(ts) == UNION {Bare(ts[i]) : i \in 1..Len(ts)}
    IN CASE t.tag \in {"String", "Bytes"} -> {t}
         [] t.tag = "Seq" -> {t} \cup Of(t.e)
         [] t.tag = "Map" ->
                {t, [tag |-> "Seq", h |-> t.kh, e |-> t.k]} \cup Of(t.k) \cup Of(t.v)
         [] OTHER -> {}

\* Outside Option and Newtype the sharing is maximal: the sub-values dedup
\* reaches are the registered instances, one per content.
SharingOutsideWrappers ==
    \A a, b \in UNION {Bare(r) : r \in Returned} :
        /\ Registered(a)
        /\ (a.tag = b.tag /\ eq(a, b)) => a.h = b.h

\* C3: dedup of a value that dedup of this session returned registers
\* nothing (the four sets are unchanged) and returns a value structurally
\* equal to its argument.
C3_IdempotentState ==
    [][(last'.op = "dedup" /\ last'.d) =>
          /\ Sets' = Sets
          /\ eq(last'.content, Deref(heap', last'.out))]_vars

\* a second dedup of a returned sequence or collection has just returned
C3_Witness ==
    /\ Called
    /\ last.d
    /\ last.in.tag \in {"Seq", "Map"}
    /\ vectors # {}

\* C4: dedup of a value that dedup of this session returned returns the
\* same instances: the result has, at every place, the address the argument
\* had there, with the content the argument had.
C4_IdempotentIdentity ==
    (Called /\ last.d) => Deref(heap, last.out) = last.content

\* a second dedup of a returned collection with a shared key has just
\* returned that collection
C4_Witness ==
    /\ Called
    /\ last.d
    /\ last.in.tag = "Map"
    /\ last.out.h = last.in.h
    /\ Len(last.content.k) > 0

\* C5: dedup returns a value structurally equal to its argument, whatever
\* the session holds.
C5_ResultEqualsInput ==
    Called => eq(last.content, Deref(heap, last.out))

\* dedup replaced a sequence of two different elements by another instance
C5_Witness ==
    /\ Called
    /\ last.in.tag = "Seq"
    /\ last.out.h # last.in.h
    /\ Len(last.content.e) = 2
    /\ ~eq(last.content.e[1], last.content.e[2])

\* C6: dedup of an Option or Newtype canonicalizes the payload: a shared
\* payload in the result is the instance registered in the session.
C6_PayloadCanonical ==
    (Called /\ last.in.tag \in {"Option", "Newtype"}) =>
        /\ last.out.tag = last.in.tag
        /\ last.in.tag = "Option" => \A i \in 1..Len(last.out.o) : Registered(last.out.o[i])
        /\ last.in.tag = "Newtype" => Registered(last.out.x)

\* C7: dedup of a scalar changes none of the four sets and returns a value
\* equal to its argument.
C7_ScalarPassthrough ==
    [][(last'.op = "dedup" /\ last'.in.tag \in ScalarTags) =>
          /\ Sets' = Sets
          /\ eq(last'.in, last'.out)]_vars

\* a scalar went through a session that holds registered content
C7_Witness ==
    /\ Called
    /\ last.in.tag = "F64"
    /\ last.out = last.in
    /\ strings # {}
    /\ vectors # {}

\* the entries of t, position by position, are the entries of u in another
\* order, and not in the same order
Permuted(t, u) ==
    LET n == Len(t.k)
        Pair(a, i, b, j) == eq(a.k[i], b.k[j]) /\ eq(a.v[i], b.v[j])
    IN /\ Len(u.k) = n
       /\ \E p \in [1..n -> 1..n] :
             /\ \A i, j \in 1..n : i # j => p[i] # p[j]
             /\ \A i \in 1..n : Pair(t, i, u, p[i])
       /\ \E i \in 1..n : ~Pair(t, i, u, i)

\* C8: a collection that holds the entries of a registered collection at
\* other positions is not equal to it, and dedup does not merge the two:
\* it returns another instance, and both are entries of the collection set.
C8_OrderSensitive ==
    (Called /\ last.in.tag = "Map") =>
        \A h \in objects :
            Permuted(last.content, Deref(heap, Shared("Map", h))) =>
                /\ ~eq(last.content, Deref(heap, Shared("Map", h)))
                /\ last.out.h # h
                /\ last.out.h \in objects

\* dedup has returned a collection whose entries are registered in another
\* order as well
C8_Witness ==
    /\ Called
    /\ last.in.tag = "Map"
    /\ \E h \in objects : Permuted(last.content, Deref(heap, Shared("Map", h)))
    /\ Cardinality(objects) >= 2

\* the texts of the keys of the batch that was fed
KeyTexts ==
    {last.content.e[i].k[p].s :
        i \in 1..Len(last.content.e), p \in 1..Len(last.content.e[1].k)}

\* C9: after the first dedup of a record batch on a new session, the key
\* sequences of all records are one instance, every key text is one string
\* instance used at each place it occurs, and the strings registered are
\* exactly the key texts, one handle each.
C9_RecordBatch ==
    (Called /\ ~last.d) =>
        LET recs == Deref(heap, last.out).e
            K == 1..Len(last.content.e[1].k)
        IN /\ \A i, j \in 1..Len(recs) : recs[i].kh = recs[j].kh
           /\ \A i, j \in 1..Len(recs) : \A p, q \in K :
                 recs[i].k[p].s = recs[j].k[q].s => recs[i].k[p].h = recs[j].k[q].h
           /\ \A i \in 1..Len(recs) : \A p \in K : recs[i].k[p].h \in strings
           /\ {heap[h].s : h \in strings} = KeyTexts
           /\ Cardinality(strings) = Cardinality(KeyTexts)

\* a batch of at least two records with two keys, whose key sequences were
\* separate instances and whose values differ, has been fed
C9_Witness ==
    /\ Called
    /\ ~last.d
    /\ Len(last.content.e) >= 2
    /\ Len(last.content.e[1].k) = 2
    /\ last.content.e[1].kh # last.content.e[2].kh
    /\ last.content.e[1].k[1].h # last.content.e[2].k[1].h
    /\ last.content.e[1].v # last.content.e[2].v
    /\ Deref(heap, last.out).e[1].kh = Deref(heap, last.out).e[2].kh

\* the content of a cell, its count aside
Content(c) == [c EXCEPT !.rc = 0]

\* C10: no step of the session or of the caller removes an entry of the
\* four sets; a registered handle stays live, with its content and a count
\* of at least 1, whatever the caller drops.
C10_NeverPruned ==
    [][/\ blobs \subseteq blobs'
       /\ strings \subseteq strings'
       /\ vectors \subseteq vectors'
       /\ objects \subseteq objects'
       /\ \A h \in blobs \cup strings \cup vectors \cup objects :
             /\ h \in DOMAIN heap'
             /\ strong_count(heap', h) >= 1
             /\ Content(heap'[h]) = Content(heap[h])]_vars

\* the caller holds nothing any more, and the session still holds a string
\* and a sequence, each with the session's handle as the only one
C10_Witness ==
    /\ vals = <<>>
    /\ last = NoCall
    /\ \E h \in strings : strong_count(heap, h) = 1
    /\ \E h \in vectors : strong_count(heap, h) = 1

\* the variants in the order of their rank
RankOrder ==
    <<"Bool", "U8", "U16", "U32", "U64", "I8", "I16", "I32", "I64", "F32", "F64",
      "Char", "String", "Unit", "Option", "Newtype", "Seq", "Map", "Bytes">>

Rank(t) == CHOOSE i \in 1..Len(RankOrder) : RankOrder[i] = t

Reverse(o) ==
    CASE o = "Less" -> "Greater" [] o = "Greater" -> "Less" [] o = "Equal" -> "Equal"

\* C11: cmp is a total order that agrees with ==: every pair gets one of
\* the three results, cmp(b, a) is the reverse of cmp(a, b), a == b exactly
\* when cmp(a, b) is Equal, and cmp is transitive through every third value.
C11_TotalOrder ==
    (last.op = "cmp") =>
        /\ last.ab \in {"Less", "Equal", "Greater"}
        /\ last.ba = Reverse(last.ab)
        /\ last.e <=> (last.ab = "Equal")
        /\ \A c \in Universe :
              LET bc == cmp(last.b, c)
                  ac == cmp(last.a, c)
              IN /\ (last.ab # "Greater" /\ bc # "Greater") => ac # "Greater"
                 /\ (last.ab = "Less" /\ bc # "Greater") => ac = "Less"
                 /\ (last.ab # "Greater" /\ bc = "Less") => ac = "Less"

\* two collections with equal keys in separate storage were ordered by
\* their values
C11_Witness ==
    /\ last.op = "cmp"
    /\ last.a.tag = "Map"
    /\ last.b.tag = "Map"
    /\ Len(last.a.k) = 2
    /\ VecEq(last.a.k, last.b.k)
    /\ last.ab = "Less"
    /\ last.ba = "Greater"

\* C12: two values of different variants are not equal, and cmp orders
\* them by the rank of their variants, whatever they contain.
C12_DiscriminantSeparation ==
    (last.op = "cmp" /\ last.a.tag # last.b.tag) =>
        /\ ~last.e
        /\ last.ab = IntCmp(Rank(last.a.tag), Rank(last.b.tag))
        /\ last.ab # "Equal"

\* an empty byte-blob was compared with a collection of two entries and
\* found greater
C12_Witness ==
    /\ last.op = "cmp"
    /\ last.a.tag = "Bytes"
    /\ last.a.b = <<>>
    /\ last.b.tag = "Map"
    /\ Len(last.b.k) = 2
    /\ last.ab = "Greater"

\* C13: equal values hash alike: the writes the hasher receives are the
\* same for a and b whenever a == b, whatever storage the two occupy.
C13_HashConsistent ==
    (last.op = "hash" /\ last.e) => last.ha = last.hb

\* two equal sequences whose strings live in separate storage were hashed
C13_Witness ==
    /\ last.op = "hash"
    /\ last.a.tag = "Seq"
    /\ last.b.tag = "Seq"
    /\ Len(last.a.e) = 2
    /\ last.e
    /\ \E i \in 1..2 : last.a.e[i].tag = "String" /\ last.a.e[i].h # last.b.e[i].h
    /\ last.ha = last.hb

\* C14: in every collection (built by the caller, returned by dedup or
\* registered in the session) the key sequence and the value sequence have
\* the same length, and dedup of a collection keeps each key at its
\* position with its value.
C14_KeysMatchValues ==
    /\ \A h \in DOMAIN heap :
          heap[h].kind = "kv" =>
              /\ heap[h].k \in DOMAIN heap
              /\ heap[heap[h].k].kind = "vec"
              /\ Len(heap[heap[h].k].e) = Len(heap[h].v)
    /\ (Called /\ last.in.tag = "Map") =>
          LET out == Deref(heap, last.out)
          IN /\ Len(out.k) = Len(last.content.k)
             /\ Len(out.v) = Len(last.content.v)
             /\ \A i \in 1..Len(out.k) :
                   /\ eq(out.k[i], last.content.k[i])
                   /\ eq(out.v[i], last.content.v[i])

\* dedup has rebuilt a collection of two entries with different keys and
\* different values, and the rebuilt collection is registered
C14_Witness ==
    /\ Called
    /\ last.in.tag = "Map"
    /\ Len(last.content.k) = 2
    /\ ~eq(last.content.k[1], last.content.k[2])
    /\ ~eq(last.content.v[1], last.content.v[2])
    /\ last.out.h # last.in.h
    /\ last.out.h \in objects

RECURSIVE Handles(_, _)

\* the handles to the cell h that a value holds itself (behind its boxes,
\* not behind its Arcs)
Handles(v, h) ==
    CASE IsShared(v)       -> IF v.h = h THEN 1 ELSE 0
      [] v.tag = "Option"  -> IF v.o = <<>> THEN 0 ELSE Handles(v.o[1], h)
      [] v.tag = "Newtype" -> Handles(v.x, h)
      [] OTHER             -> 0

HandlesIn(vs, h) ==
    LET F[i \in 0..Len(vs)] == IF i = 0 THEN 0 ELSE F[i - 1] + Handles(vs[i], h)
    IN F[Len(vs)]

\* the handles to h that the content of the cell c holds
CellHandles(c, h) ==
    CASE c.kind = "vec" -> HandlesIn(c.e, h)
      [] c.kind = "kv"  -> (IF c.k = h THEN 1 ELSE 0) + HandlesIn(c.v, h)
      [] OTHER          -> 0

RECURSIVE HeapHandles(_, _)

HeapHandles(cells, h) ==
    IF cells = {} THEN 0
    ELSE LET c == CHOOSE x \in cells : TRUE
         IN CellHandles(heap[c], h) + HeapHandles(cells \ {c}, h)

\* the live handles to the cell h: the one of the session, those in the
\* values the caller holds, and those in the content of live cells
LiveHandles(h) ==
    (IF h \in blobs \cup strings \cup vectors \cup objects THEN 1 ELSE 0)
        + HandlesIn([i \in 1..Len(vals) |-> vals[i].v], h)
        + HeapHandles(DOMAIN heap, h)

\* the strong count of every live cell is the number of handles to it
CountsAreHandles ==
    \A h \in DOMAIN heap : strong_count(heap, h) = LiveHandles(h)

\* C15: the count that strings(), vectors() and objects() report for an
\* entry is the number of live handles to it: the handle of the session,
\* those in values the caller holds and those in registered content.
C15_CountsAreLiveHandles ==
    /\ \A o \in Orders(strings) : \A i \in 1..Len(o) :
          strings_counts(S0, o)[i][2] = LiveHandles(o[i])
    /\ \A o \in Orders(vectors) : \A i \in 1..Len(o) :
          vectors_counts(S0, o)[i][2] = LiveHandles(o[i])
    /\ \A o \in Orders(objects) : \A i \in 1..Len(o) :
          objects_counts(S0, o)[i][3] = LiveHandles(o[i])

\* the bytes of a registered blob or string, the elements of a registered
\* sequence, the entries of a registered collection
Units(h) ==
    LET c == heap[h]
    IN CASE c.kind = "bytes" -> Len(c.b)
         [] c.kind = "str"   -> Len(Utf8(c.s))
         [] c.kind = "vec"   -> Len(c.e)
         [] c.kind = "kv"    -> Len(c.v)

\* all of them over a set of entries, each with its entry and its position
Positions(set) == UNION {{<<h, i>> : i \in 1..Units(h)} : h \in set}

\* the sum the size estimate is said to be
RawAndElements ==
    Cardinality(Positions(blobs)) + Cardinality(Positions(strings))
        + SizeOfValue * Cardinality(Positions(vectors))
        + SizeOfValue * Cardinality(Positions(objects))

\* C16 as stated: size() is the raw length of every registered blob and
\* string plus the size of one Value for every element of every registered
\* sequence and every entry of every registered collection.
C16_SizeIsRawPlusElements ==
    size(S0) = RawAndElements

\* C16 as amended: the sum above plus the size of one KV for every
\* registered collection.
C16_SizeCountsKV ==
    size(S0) = RawAndElements + SizeOfKV * Cardinality(objects)

\* the session holds a blob, a string, a sequence and a collection with an
\* entry
C16_Witness ==
    /\ blobs # {}
    /\ strings # {}
    /\ vectors # {}
    /\ \E h \in objects : Len(heap[h].v) > 0

\* the entries the report lists for a shape
Listed(shape) ==
    IF shape \in DOMAIN fmt(S0) THEN fmt(S0)[shape] ELSE {}

\* the registered entries with more handles than t
Popular(set, t) == {h \in set : strong_count(heap, h) > t}

\* C17: for every threshold the caller may supply, the report lists for
\* each of the four shapes exactly the registered entries whose count is
\* above the threshold.
C17_ReportUsesThreshold ==
    \A t \in 0..2 :
        /\ Listed("blobs") = Popular(blobs, t)
        /\ Listed("strings") = Popular(strings, t)
        /\ Listed("vectors") = Popular(vectors, t)
        /\ Listed("objects") = Popular(objects, t)

RECURSIVE WellFormed(_, _)

\* v is a value: one of the 19 variants, every handle of it at a live cell
\* of its kind, at every depth
WellFormed(hp, v) ==
    LET All(vs) == \A i \in 1..Len(vs) : WellFormed(hp, vs[i])
        At(kind) == v.h \in DOMAIN hp /\ hp[v.h].kind = kind /\ hp[v.h].rc >= 1
    IN CASE v.tag = "String"  -> At("str")
         [] v.tag = "Bytes"   -> At("bytes")
         [] v.tag = "Seq"     -> At("vec") /\ All(hp[v.h].e)
         [] v.tag = "Map"     ->
                /\ At("kv")
                /\ hp[v.h].k \in DOMAIN hp
                /\ hp[hp[v.h].k].kind = "vec"
                /\ All(hp[hp[v.h].k].e)
                /\ All(hp[v.h].v)
         [] v.tag = "Option"  -> Len(v.o) <= 1 /\ All(v.o)
         [] v.tag = "Newtype" -> WellFormed(hp, v.x)
         [] OTHER             -> v.tag \in ScalarTags

\* the set of the session T that holds the values of the shape of v
SetOf(T, v) ==
    CASE v.tag = "String" -> T.strings
      [] v.tag = "Bytes"  -> T.blobs
      [] v.tag = "Seq"    -> T.vectors
      [] v.tag = "Map"    -> T.objects

\* C18: in every state, dedup of any value the caller holds, and of any
\* scalar, returns a value of the variant given; it removes nothing from
\* the session; a shared value comes back registered, and when no equal
\* content was registered before, the call registers it.
C18_NoPartialFailure ==
    /\ \A i \in 1..Len(vals) :
          LET v == vals[i].v
              res == dedup(S0, v)
              known == IsShared(v) /\ \E g \in SetOf(S0, v) :
                          eq(Deref(heap, Shared(v.tag, g)), Deref(heap, v))
          IN /\ res.r.tag = v.tag
             /\ WellFormed(res.S.heap, res.r)
             /\ blobs \subseteq res.S.blobs
             /\ strings \subseteq res.S.strings
             /\ vectors \subseteq res.S.vectors
             /\ objects \subseteq res.S.objects
             /\ IsShared(v) => res.r.h \in SetOf(res.S, v)
             /\ (IsShared(v) /\ ~known) => res.r.h \notin SetOf(S0, v)
    /\ \A x \in Scalars : dedup(S0, x).r \in Scalars

\* dedup has registered a sequence that was not registered, and the caller
\* holds a collection that is not registered yet, which dedup would register
C18_Witness ==
    /\ Called
    /\ ~last.d
    /\ last.in.tag = "Seq"
    /\ last.out.h \in vectors
    /\ \E j \in 1..Len(vals) :
          /\ vals[j].v.tag = "Map"
          /\ vals[j].v.h \notin objects
          /\ dedup(S0, vals[j].v).r.h \in dedup(S0, vals[j].v).S.objects \ objects

\* C19: dedup of a string or byte-blob.  When equal content is registered,
\* the registered handle is returned with one more handle to it, the
\* argument's handle is gone and the set is as it was; otherwise the
\* argument itself is registered, the set grows by it alone, and it is
\* returned.
C19_LookupOrInsert ==
    [][(last'.op = "dedup" /\ last'.in.tag \in {"String", "Bytes"}) =>
          LET a == last'.in.h
              r == last'.out.h
              before == IF last'.in.tag = "String" THEN strings ELSE blobs
              after == IF last'.in.tag = "String" THEN strings' ELSE blobs'
              found == {g \in before : Content(heap[g]) = Content(heap[a])}
          IN /\ last'.out.tag = last'.in.tag
             /\ IF found # {}
                THEN /\ r \in found
                     /\ after = before
                     /\ strong_count(heap', r) =
                            strong_count(heap, r) + 1 - (IF a = r THEN 1 ELSE 0)
                     /\ a # r =>
                            IF strong_count(heap, a) = 1
                            THEN a \notin DOMAIN heap'
                            ELSE strong_count(heap', a) = strong_count(heap, a) - 1
                ELSE /\ r = a
                     /\ a \notin before
                     /\ after = before \cup {a}
                     /\ strong_count(heap', a) = strong_count(heap, a) + 1
                     /\ Content(heap'[a]) = Content(heap[a])]_vars

\* dedup of a byte-blob has returned the registered instance and the
\* argument, a separate instance, is freed
C19_Witness ==
    /\ Called
    /\ last.in.tag = "Bytes"
    /\ last.out.h # last.in.h
    /\ last.out.h \in blobs
    /\ last.in.h \notin DOMAIN heap
    /\ strong_count(heap, last.out.h) = 3

\* v is no shared value, or its handle is the entry of the set T of its shape
RegisteredIn(T, v) == IsShared(v) => v.h \in SetOf(T, v)

\* the handles of the sequences among the sub-values of the contents ts
SeqHandles(ts) ==
    {n.h : n \in {m \in UNION {Nodes(ts[i]) : i \in 1..Len(ts)} : m.tag = "Seq"}}

\* C20: dedup of a collection.  Every key and every value that is a
\* shared value is the registered instance; the key sequence is registered
\* in the sequence set, where it is the one instance of its content (a
\* sequence equal to the key list is that instance); the call adds no
\* sequence but the key sequence and the sequences inside keys and values,
\* so the value sequence is not registered; the collection returned is
\* registered in the collection set.
C20_CollectionRule ==
    [][(last'.op = "dedup" /\ last'.in.tag = "Map") =>
          LET out == Deref(heap', last'.out)
              T == Session(heap', blobs', strings', vectors', objects')
          IN /\ \A i \in 1..Len(out.k) : RegisteredIn(T, out.k[i])
             /\ \A i \in 1..Len(out.v) : RegisteredIn(T, out.v[i])
             /\ out.kh \in vectors'
             /\ \A g \in vectors' :
                   VecEq(DerefVec(heap', heap'[g].e), out.k) => g = out.kh
             /\ vectors' \ vectors \subseteq {out.kh} \cup SeqHandles(out.k \o out.v)
             /\ last'.out.h \in objects'
             /\ objects' \ objects \subseteq
                   {last'.out.h} \cup
                   {n.h : n \in {m \in UNION {Nodes(t) : t \in {out.k[i] : i \in 1..Len(out.k)}
                                    \cup {out.v[i] : i \in 1..Len(out.v)}} : m.tag = "Map"}}]_vars

\* dedup of a collection has returned, and its key sequence is the
\* instance of a sequence the caller holds as a value of its own
C20_Witness ==
    /\ Called
    /\ last.in.tag = "Map"
    /\ Len(last.content.k) = 2
    /\ last.content.kh # heap[last.out.h].k
    /\ \E i \in 1..Len(vals) :
          /\ vals[i].d
          /\ vals[i].v.tag = "Seq"
          /\ vals[i].v.h = heap[last.out.h].k

\* C21: what a registered sequence or collection holds directly is
\* registered itself: every element, key and value that is a string, a
\* byte-blob, a sequence or a collection is the entry of the set of its
\* shape, and the key sequence of a registered collection is an entry of
\* the sequence set.
C21_RegistryClosure ==
    /\ \A g \in vectors : \A i \in 1..Len(heap[g].e) : Registered(heap[g].e[i])
    /\ \A g \in objects :
          /\ heap[g].k \in vectors
          /\ \A i \in 1..Len(heap[g].v) : Registered(heap[g].v[i])

\* a collection is registered whose key is a string and whose value is a
\* sequence with a string in it, and the argument held none of them in
\* registered storage
C21_Witness ==
    /\ Called
    /\ ~last.d
    /\ last.in.tag = "Map"
    /\ last.out.h \in objects
    /\ last.out.h # last.in.h
    /\ \E i \in 1..Len(last.content.v) :
          /\ last.content.v[i].tag = "Seq"
          /\ Len(last.content.v[i].e) > 0
          /\ last.content.v[i].e[1].tag = "String"
          /\ heap[last.out.h].v[i].h \in vectors
          /\ heap[last.out.h].v[i].h # last.content.v[i].h

\* no two entries of the set hold equal content
Unique(hp, set, tag) ==
    \A g, h \in set :
        eq(Deref(hp, Shared(tag, g)), Deref(hp, Shared(tag, h))) => g = h

\* an entry of the set before the step is, after it, the entry with its
\* content
Stays(set, after, tag) ==
    \A h \in set : \A g \in after :
        eq(Deref(heap, Shared(tag, h)), Deref(heap', Shared(tag, g))) => g = h

\* C22: after every step each of the four sets holds one handle per
\* content, and the handle registered for a content before the step is the
\* handle registered for it after the step.
C22_OneHandlePerContent ==
    [][/\ Unique(heap', blobs', "Bytes")
       /\ Unique(heap', strings', "String")
       /\ Unique(heap', vectors', "Seq")
       /\ Unique(heap', objects', "Map")
       /\ Stays(blobs, blobs', "Bytes")
       /\ Stays(strings, strings', "String")
       /\ Stays(vectors, vectors', "Seq")
       /\ Stays(objects, objects', "Map")]_vars

\* dedup met, in a separate instance, a sequence whose content is
\* registered, and the set still holds the one entry it held
C22_Witness ==
    /\ Called
    /\ ~last.d
    /\ last.in.tag = "Seq"
    /\ Len(last.content.e) = 2
    /\ last.out.h # last.in.h
    /\ vectors = {last.out.h}
    /\ Cardinality(strings) = 2
    /\ strong_count(heap, last.out.h) = 3

\* C23: dedup of an Option or a Newtype changes nothing: the four sets and
\* every cell are as they were, and the value returned is the argument,
\* its payload at the addresses it had.
C23_WrapperPassthrough ==
    [][(last'.op = "dedup" /\ last'.in.tag \in {"Option", "Newtype"}) =>
          /\ Sets' = Sets
          /\ heap' = heap
          /\ last'.out = last'.in
          /\ Deref(heap', last'.out) = last'.content]_vars

\* dedup returned an Option around a string whose text is registered in
\* another instance, and the payload is not that instance
C23_Witness ==
    /\ Called
    /\ last.in.tag = "Option"
    /\ Len(last.in.o) = 1
    /\ last.in.o[1].tag = "String"
    /\ last.out.o[1].h \notin strings
    /\ \E g \in strings : heap[g].s = heap[last.out.o[1].h].s

====
